---- MODULE Spec2Model ----
(***************************************************************************)
(* Pipe9x: anonymous pipes with overlapped I/O semantics.                  *)
(*                                                                         *)
(* The model follows src/pipe9x.c: pipe9x_create() as a sequence of steps  *)
(* against the operating system, then the two endpoints (read "r", write   *)
(* "w") driven by their owner while the backend (a worker thread on the    *)
(* thread fallback, the OS on the overlapped path) runs concurrently.      *)
(* src/unnamed/part_001 is an earlier copy of pipe9x.c; the one place      *)
(* where its control flow differs (the return after a failed CreatePipe)   *)
(* is modelled under the build tag "part_001".                             *)
(* pipe9x_write_initiate() and pipe9x_write_result() are declared in       *)
(* src/pipe9x.h and used by src/pipe9x-test.c but not defined under src/;  *)
(* they are modelled from the specification.                               *)
(***************************************************************************)
EXTENDS Integers, Sequences, FiniteSets, TLC

(* ------------------------------ bounds -------------------------------- *)

\* Largest read_size / write_size handed to pipe9x_create().
MaxSize == 2

\* Largest number of consecutive name collisions the OS reports.
MaxCollisions == 1

(* ----------------------------- constants ------------------------------ *)

\* Byte values written by the test program (0xDD, 0xFF).
Byte == {221, 255}

ERROR_SUCCESS == "ERROR_SUCCESS"
ERROR_OUTOFMEMORY == "ERROR_OUTOFMEMORY"
ERROR_FILE_EXISTS == "ERROR_FILE_EXISTS"
ERROR_CALL_NOT_IMPLEMENTED == "ERROR_CALL_NOT_IMPLEMENTED"
ERROR_IO_PENDING == "ERROR_IO_PENDING"
ERROR_IO_INCOMPLETE == "ERROR_IO_INCOMPLETE"
ERROR_INVALID_PARAMETER == "ERROR_INVALID_PARAMETER"
ERROR_BROKEN_PIPE == "ERROR_BROKEN_PIPE"
ERROR_OPERATION_ABORTED == "ERROR_OPERATION_ABORTED"
ERROR_INVALID_HANDLE == "ERROR_INVALID_HANDLE"
ERROR_NO_DATA == "ERROR_NO_DATA"
\* Any other failure the OS may report (out of handles, access denied, ...).
ERROR_OTHER == "ERROR_NOT_ENOUGH_MEMORY"

INVALID_HANDLE_VALUE == "INVALID_HANDLE_VALUE"
NULL == "NULL"
HANDLE == "HANDLE"
PTR == "PTR"

Ends == {"r", "w"}
Builds == {"pipe9x.c", "part_001"}

(* ------------------------------- state -------------------------------- *)

VARIABLES
    build,      \* which copy of the library is compiled
    read_size,  \* arguments of pipe9x_create()
    write_size,
    cpc,        \* position of the thread running pipe9x_create()
    collisions, \* name collisions seen so far by the CreateNamedPipe loop
    np_error,   \* what CreateNamedPipe() reported last ("none" before it ran)
    cret,       \* value returned by pipe9x_create() ("none" until it returns)
    out,        \* *prh_out / *pwh_out: NULL or PTR, "UNSET" before the call
    pd,         \* struct PipeData of each endpoint
    obj,        \* endpoint object: "none", "live", "freed"
    mem,        \* contents of the transfer buffer rw_buf of each endpoint
    live,       \* OS resources and allocations currently held
    ev,         \* state of each endpoint's event object (TRUE = signalled)
    thr,        \* worker thread of each endpoint
    nat,        \* overlapped operation of each endpoint inside the OS
    natres,     \* outcome of the overlapped operation once it is done
    pipe_cap,   \* buffer size the OS pipe was created with
    pipe_buf,   \* bytes buffered inside the OS pipe
    wrem,       \* bytes of the in-flight write not yet taken by the pipe
    hopen,      \* whether the OS handle of each end of the pipe is open
    accept,     \* overlapped ConnectNamedPipe: "none", "inflight", "done"
    call,       \* what the owner of each endpoint is doing
    last,       \* return value and outputs of the call that just returned
    rt,         \* history: the bytes handed to the last write started on an
                \* empty pipe with the reader idle or waiting for bytes, until
                \* the read that takes them has reported (<<>> when there is
                \* none)
    tally       \* history: what result() has reported so far to the owner
                \* (see Tally0)

vars == <<build, read_size, write_size, cpc, collisions, np_error, cret, out, pd, obj,
          mem, live, ev, thr, nat, natres, pipe_cap, pipe_buf, wrem, hopen,
          accept, call, last, rt, tally>>

createVars == <<cpc, collisions, np_error, cret, out, accept>>
argVars == <<build, read_size, write_size, pipe_cap>>

\* read_size and write_size are parameters of pipe9x_create(): they exist
\* until it returns.
CreateArgs ==
    /\ build' = build
    /\ rt' = rt
    /\ tally' = tally
    /\ read_size' = IF cpc' = "done" THEN 0 ELSE read_size
    /\ write_size' = IF cpc' = "done" THEN 0 ELSE write_size

\* The rounds of the CreateNamedPipe() loop are counted while it runs.
LoopCount(n) == IF cpc' = "done" THEN 0 ELSE n

\* The owner's books, starting as pipe9x-test.c starts total_data_written
\* and total_data_read. owed: bytes reported written by successful write
\* results minus bytes reported read by successful read results. moved: a
\* read result has reported bytes. unretired: the write endpoint was closed
\* with a write pending, whose outcome no result() has reported. asked: the
\* data_size given to the pipe9x_write_initiate() whose write has not been
\* retired yet, 0 when there is none.
Tally0 == [owed |-> 0, moved |-> FALSE, unretired |-> FALSE, asked |-> 0]

\* The books after pipe9x_read_result() has returned ret: the byte count
\* is stored through data_size_out, and counted, only when the call returns
\* ERROR_SUCCESS.
BookedRead(ret) ==
    IF ret.op = "result" /\ ret.code = ERROR_SUCCESS
    THEN [tally EXCEPT !.owed = @ - ret.size, !.moved = TRUE]
    ELSE tally

\* The books after pipe9x_write_result() has returned ret: the byte count
\* of a successful write result is counted, that of no other return is.
\* (pipe9x-test.c adds data_size after its last two write results whatever
\* they returned; the two sums differ only in a run in which one of these
\* results fails, which the test has then already counted as a failure.)
\* The request is off the books once the write is retired.
BookedWrite(ret) ==
    IF ret.op = "result" /\ ret.code = ERROR_SUCCESS
    THEN [tally EXCEPT !.owed = @ + ret.size, !.asked = 0]
    ELSE IF ret.op = "result"
            /\ ret.code \notin {ERROR_IO_INCOMPLETE, ERROR_INVALID_PARAMETER}
    THEN [tally EXCEPT !.asked = 0]
    ELSE tally

\* struct PipeData as written by pipe9x_create() before any OS call.
PipeData0(size) ==
    [ pipe |-> INVALID_HANDLE_VALUE,
      rw_buf |-> NULL,
      rw_buf_size |-> size,
      hEvent |-> NULL,
      pending |-> FALSE,
      use_thread_fallback |-> FALSE,
      io_thread |-> NULL,
      bytes_transferred |-> 0,
      io_result |-> "UNINIT" ]

NoPipeData ==
    [ pipe |-> "UNINIT",
      rw_buf |-> "UNINIT",
      rw_buf_size |-> 0,
      hEvent |-> "UNINIT",
      pending |-> FALSE,
      use_thread_fallback |-> FALSE,
      io_thread |-> "UNINIT",
      bytes_transferred |-> 0,
      io_result |-> "UNINIT" ]

NoNatRes == [code |-> "none", n |-> 0]

\* What a call gave back: the operation, its return code, the wait flag it
\* was given, whether it wrote its output parameters and the size it wrote.
\* busy marks an initiate that found an operation already pending.
NoRet ==
    [ op |-> "none", code |-> "none", wait |-> FALSE, set |-> FALSE, size |-> 0,
      busy |-> FALSE ]

\* A return that leaves the output parameters unwritten.
Ret(op, code, wait) ==
    [ op |-> op, code |-> code, wait |-> wait, set |-> FALSE, size |-> 0,
      busy |-> FALSE ]

RetBusy(code) == [Ret("initiate", code, FALSE) EXCEPT !.busy = TRUE]

\* A return that writes the output parameters: the size, and for a read the
\* data pointer, which is the address of rw_buf (the bytes are mem["r"]).
RetData(op, code, wait, size) ==
    [ op |-> op, code |-> code, wait |-> wait, set |-> TRUE, size |-> size,
      busy |-> FALSE ]

Res(e, what) == <<e, what>>

Init ==
    /\ build = "pipe9x.c"
    /\ read_size \in 1..MaxSize
    /\ write_size \in 1..MaxSize
    /\ cpc = "start"
    /\ collisions = 0
    /\ cret = "none"
    /\ out = [e \in Ends |-> "UNSET"]
    /\ pd = [e \in Ends |-> NoPipeData]
    /\ obj = [e \in Ends |-> "none"]
    /\ mem = [e \in Ends |-> <<>>]
    /\ live = {}
    /\ ev = [e \in Ends |-> FALSE]
    /\ thr = [e \in Ends |-> "none"]
    /\ nat = [e \in Ends |-> "none"]
    /\ natres = [e \in Ends |-> NoNatRes]
    /\ pipe_cap = 0
    /\ pipe_buf = <<>>
    /\ wrem = <<>>
    /\ hopen = [e \in Ends |-> FALSE]
    /\ accept = "none"
    /\ call = [e \in Ends |-> "idle"]
    /\ last = [e \in Ends |-> NoRet]
    /\ rt = <<>>
    /\ tally = Tally0
    /\ np_error = "none"

\* The earlier copy of the library (src/unnamed/part_001), whose buffers are
\* a fixed PIPE_READ_SIZE for both endpoints.
InitPart001 ==
    /\ build = "part_001"
    /\ read_size \in 1..MaxSize
    /\ write_size = read_size
    /\ cpc = "start"
    /\ collisions = 0
    /\ cret = "none"
    /\ out = [e \in Ends |-> "UNSET"]
    /\ pd = [e \in Ends |-> NoPipeData]
    /\ obj = [e \in Ends |-> "none"]
    /\ mem = [e \in Ends |-> <<>>]
    /\ live = {}
    /\ ev = [e \in Ends |-> FALSE]
    /\ thr = [e \in Ends |-> "none"]
    /\ nat = [e \in Ends |-> "none"]
    /\ natres = [e \in Ends |-> NoNatRes]
    /\ pipe_cap = 0
    /\ pipe_buf = <<>>
    /\ wrem = <<>>
    /\ hopen = [e \in Ends |-> FALSE]
    /\ accept = "none"
    /\ call = [e \in Ends |-> "idle"]
    /\ last = [e \in Ends |-> NoRet]
    /\ rt = <<>>
    /\ tally = Tally0
    /\ np_error = "none"

(* --------------------------- _pipe9x_cleanup --------------------------- *)

\* Fields of struct PipeData after _pipe9x_cleanup() has run to its end:
\* the pipe handle is closed when it is not INVALID_HANDLE_VALUE, the worker
\* handle is closed when an operation was pending on the thread fallback,
\* and the event is closed when it was created.
CleanupFields(p) ==
    [ p EXCEPT !.pipe = IF p.pipe # INVALID_HANDLE_VALUE THEN NULL ELSE @,
               !.io_thread = IF p.pending /\ p.use_thread_fallback THEN NULL ELSE @,
               !.hEvent = NULL ]

\* Resources _pipe9x_cleanup() and the free() of the endpoint object release.
\* The transfer buffer rw_buf is not among them.
CleanupReleases(e, p) ==
    (IF p.pipe # INVALID_HANDLE_VALUE THEN {Res(e, "pipe")} ELSE {})
    \cup (IF p.pending /\ p.use_thread_fallback THEN {Res(e, "thread")} ELSE {})
    \cup (IF p.hEvent # NULL THEN {Res(e, "event")} ELSE {})
    \cup {Res(e, "obj")}

\* pipe9x_write_close(pwh); pipe9x_read_close(prh); on a failure path of
\* pipe9x_create(): nothing is pending on either endpoint, so neither call
\* waits.
CloseBothInCreate ==
    /\ pd' = [e \in Ends |-> CleanupFields(pd[e])]
    /\ obj' = [e \in Ends |-> "freed"]
    /\ live' = live \ (CleanupReleases("r", pd["r"]) \cup CleanupReleases("w", pd["w"]))
    /\ hopen' = [e \in Ends |-> FALSE]

FailCreate(error) ==
    /\ CloseBothInCreate
    /\ cret' = error
    /\ cpc' = "done"

(* ---------------------------- pipe9x_create ---------------------------- *)

\* *prh_out = NULL; *pwh_out = NULL; malloc() of the two endpoint objects.
create_alloc ==
    /\ cpc = "start"
    /\ out' = [e \in Ends |-> NULL]
    /\ \E okr \in BOOLEAN, okw \in BOOLEAN :
        IF okr /\ okw
        THEN /\ obj' = [e \in Ends |-> "live"]
             /\ live' = live \cup {Res("r", "obj"), Res("w", "obj")}
             /\ cpc' = "bufs"
             /\ cret' = cret
        ELSE \* free(pwh); free(prh): whichever was allocated is released
             /\ obj' = obj
             /\ live' = live
             /\ cpc' = "done"
             /\ cret' = ERROR_OUTOFMEMORY
    /\ CreateArgs
    /\ np_error' = np_error
    /\ collisions' = LoopCount(collisions)
    /\ UNCHANGED <<pipe_cap, pd, mem, ev, thr, nat, natres, pipe_buf,
                   wrem, hopen, accept, call, last>>

\* Field initialisation and malloc() of the two transfer buffers. Both
\* buffers are sized read_size.
create_bufs ==
    /\ cpc = "bufs"
    /\ \E okr \in BOOLEAN, okw \in BOOLEAN :
        \* part_001 keeps rw_buf as an array inside the object: no malloc()
        /\ (build = "part_001") => (okr /\ okw)
        /\ LET p0 == [ r |-> [PipeData0(read_size) EXCEPT !.rw_buf = IF okr THEN PTR ELSE NULL],
                    w |-> [PipeData0(read_size) EXCEPT !.rw_buf = IF okw THEN PTR ELSE NULL] ]
               got == IF build = "part_001" THEN {}
                      ELSE (IF okr THEN {Res("r", "buf")} ELSE {})
                           \cup (IF okw THEN {Res("w", "buf")} ELSE {})
           IN
            IF okr /\ okw
            THEN /\ pd' = p0
                 /\ live' = live \cup got
                 /\ cpc' = "event_r"
                 /\ UNCHANGED <<cret, obj, hopen>>
            ELSE /\ pd' = [e \in Ends |-> CleanupFields(p0[e])]
                 /\ obj' = [e \in Ends |-> "freed"]
                 /\ live' = (live \cup got)
                            \ (CleanupReleases("r", p0["r"]) \cup CleanupReleases("w", p0["w"]))
                 /\ hopen' = [e \in Ends |-> FALSE]
                 /\ cret' = ERROR_OUTOFMEMORY
                 /\ cpc' = "done"
    /\ CreateArgs
    /\ np_error' = np_error
    /\ collisions' = LoopCount(collisions)
    /\ UNCHANGED <<pipe_cap, out, mem, ev, thr, nat, natres, pipe_buf,
                   wrem, accept, call, last>>

\* prh->data.overlapped.hEvent = CreateEvent(NULL, TRUE, FALSE, NULL):
\* manual reset, initially not signalled.
create_event_r ==
    /\ cpc = "event_r"
    /\ \E ok \in BOOLEAN :
        IF ok
        THEN /\ pd' = [pd EXCEPT !["r"].hEvent = HANDLE]
             /\ ev' = [ev EXCEPT !["r"] = FALSE]
             /\ live' = live \cup {Res("r", "event")}
             /\ cpc' = "event_w"
             /\ UNCHANGED <<cret, obj, hopen>>
        ELSE /\ FailCreate(ERROR_OTHER)
             /\ ev' = ev
    /\ CreateArgs
    /\ np_error' = np_error
    /\ collisions' = LoopCount(collisions)
    /\ UNCHANGED <<pipe_cap, out, mem, thr, nat, natres, pipe_buf,
                   wrem, accept, call, last>>

\* pwh->data.overlapped.hEvent = CreateEvent(NULL, TRUE, FALSE, NULL).
create_event_w ==
    /\ cpc = "event_w"
    /\ \E ok \in BOOLEAN :
        IF ok
        THEN /\ pd' = [pd EXCEPT !["w"].hEvent = HANDLE]
             /\ ev' = [ev EXCEPT !["w"] = FALSE]
             /\ live' = live \cup {Res("w", "event")}
             /\ cpc' = "namedpipe"
             /\ UNCHANGED <<cret, obj, hopen>>
        ELSE /\ FailCreate(ERROR_OTHER)
             /\ ev' = ev
    /\ CreateArgs
    /\ np_error' = np_error
    /\ collisions' = LoopCount(collisions)
    /\ UNCHANGED <<pipe_cap, out, mem, thr, nat, natres, pipe_buf,
                   wrem, accept, call, last>>

\* A create() that takes a name collision for a failure like any other.
CollisionSurfaces(error) == FALSE

\* if(error == ERROR_FILE_EXISTS): the name is already in use, loop and try
\* another.
CollisionRetries(error) == error = ERROR_FILE_EXISTS

\* A create() that tags the read endpoint only.
UseThreadFallbackReadOnly(e) == e = "r"

\* The tag stored in endpoint e once CreatePipe() has succeeded:
\* prh->data.use_thread_fallback = TRUE; pwh->data.use_thread_fallback = TRUE.
UseThreadFallback(e) == TRUE

\* One round of the while loop around CreateNamedPipe(): success, a name
\* collision (loop again), ERROR_CALL_NOT_IMPLEMENTED (fall back to
\* CreatePipe() and background threads), or any other error.
create_namedpipe ==
    /\ cpc = "namedpipe"
    /\ \E res \in {ERROR_SUCCESS, ERROR_FILE_EXISTS, ERROR_CALL_NOT_IMPLEMENTED, ERROR_OTHER},
          okpipe \in BOOLEAN :
        /\ np_error' = res
        /\ CASE res = ERROR_SUCCESS ->
                /\ pd' = [pd EXCEPT !["r"].pipe = HANDLE]
                /\ pipe_cap' = read_size
                /\ hopen' = [hopen EXCEPT !["r"] = TRUE]
                /\ live' = live \cup {Res("r", "pipe")}
                /\ cpc' = "connect"
                /\ collisions' = collisions
                /\ UNCHANGED <<cret, out, obj>>
          [] CollisionRetries(res) ->
                /\ collisions < MaxCollisions
                /\ collisions' = collisions + 1
                /\ UNCHANGED <<cpc, cret, out, pd, obj, live, hopen, pipe_cap>>
          [] res = ERROR_CALL_NOT_IMPLEMENTED /\ okpipe ->
                /\ pd' = [e \in Ends |-> [pd[e] EXCEPT !.pipe = HANDLE,
                                    !.use_thread_fallback = UseThreadFallback(e)]]
                /\ pipe_cap' = read_size
                /\ hopen' = [e \in Ends |-> TRUE]
                /\ live' = live \cup {Res("r", "pipe"), Res("w", "pipe")}
                /\ out' = [e \in Ends |-> PTR]
                /\ cret' = ERROR_SUCCESS
                /\ cpc' = "done"
                /\ collisions' = 0
                /\ UNCHANGED obj
          [] res = ERROR_CALL_NOT_IMPLEMENTED /\ ~okpipe ->
                \* CreatePipe() failed. pipe9x.c returns the error; part_001
                \* ends this branch with SetLastError(error); return true;
                /\ CloseBothInCreate
                /\ cret' = IF build = "part_001" THEN ERROR_SUCCESS ELSE ERROR_OTHER
                /\ cpc' = "done"
                /\ collisions' = 0
                /\ UNCHANGED <<out, pipe_cap>>
          [] OTHER ->
                /\ okpipe
                /\ FailCreate(res)
                /\ collisions' = 0
                /\ UNCHANGED <<out, pipe_cap>>
    /\ CreateArgs
    /\ UNCHANGED <<mem, ev, thr, nat, natres, pipe_buf, wrem, accept, call, last>>

\* ConnectNamedPipe(prh->data.pipe, &prh->data.overlapped). The OS resets
\* the event when it starts the operation and signals it when the operation
\* completes. A zero return is taken as failure whatever GetLastError() says.
create_connect ==
    /\ cpc = "connect"
    /\ \E res \in {ERROR_SUCCESS, ERROR_IO_PENDING, ERROR_OTHER} :
        IF res = ERROR_SUCCESS
        THEN /\ accept' = "done"
             /\ ev' = [ev EXCEPT !["r"] = TRUE]
             /\ cpc' = "createfile"
             /\ UNCHANGED <<cret, pd, obj, live, hopen>>
        ELSE /\ accept' = IF res = ERROR_IO_PENDING THEN "inflight" ELSE "none"
             /\ ev' = [ev EXCEPT !["r"] = FALSE]
             /\ FailCreate(res)
    /\ CreateArgs
    /\ np_error' = np_error
    /\ collisions' = LoopCount(collisions)
    /\ UNCHANGED <<pipe_cap, out, mem, thr, nat, natres, pipe_buf, wrem,
                   call, last>>

\* pwh->data.pipe = CreateFile(pipename, GENERIC_WRITE, ...).
create_createfile ==
    /\ cpc = "createfile"
    /\ \E ok \in BOOLEAN :
        IF ok
        THEN /\ pd' = [pd EXCEPT !["w"].pipe = HANDLE]
             /\ hopen' = [hopen EXCEPT !["w"] = TRUE]
             /\ live' = live \cup {Res("w", "pipe")}
             /\ cpc' = "overlapped"
             /\ UNCHANGED <<cret, obj>>
        ELSE FailCreate(ERROR_OTHER)
    /\ CreateArgs
    /\ np_error' = np_error
    /\ collisions' = LoopCount(collisions)
    /\ UNCHANGED <<pipe_cap, out, mem, ev, thr, nat, natres, pipe_buf,
                   wrem, accept, call, last>>

\* GetOverlappedResult(prh->data.pipe, &prh->data.overlapped, &n, TRUE):
\* returns once the accept has completed.
create_overlapped ==
    /\ cpc = "overlapped"
    /\ accept = "done"
    /\ \E ok \in BOOLEAN :
        IF ok
        THEN /\ out' = [e \in Ends |-> PTR]
             /\ cret' = ERROR_SUCCESS
             /\ cpc' = "done"
             /\ UNCHANGED <<pd, obj, live, hopen>>
        ELSE /\ FailCreate(ERROR_OTHER)
             /\ out' = out
    /\ CreateArgs
    /\ np_error' = np_error
    /\ collisions' = LoopCount(collisions)
    /\ UNCHANGED <<pipe_cap, mem, ev, thr, nat, natres, pipe_buf, wrem,
                   accept, call, last>>

\* An accept that was started and is still outstanding completes inside the
\* OS; the OS signals the event it was given if that event still exists.
os_accept_complete ==
    /\ accept = "inflight"
    /\ accept' = "done"
    /\ ev' = IF Res("r", "event") \in live THEN [ev EXCEPT !["r"] = TRUE] ELSE ev
    /\ UNCHANGED <<rt, tally, argVars, np_error, cpc, collisions, cret, out, pd, obj, mem, live, thr, nat,
                   natres, pipe_buf, wrem, hopen, call, last>>

(* ------------------------------ the OS pipe ---------------------------- *)

Min(a, b) == IF a < b THEN a ELSE b

\* Room left in the pipe, which was created with read_size as its buffer size.
PipeSpace == pipe_cap - Len(pipe_buf)

\* A read finds the pipe broken when the write end is closed, nothing is
\* buffered and no write is still being taken by the pipe.
PipeBroken == pipe_buf = <<>> /\ wrem = <<>> /\ ~hopen["w"]

\* A ReadFile() that hands over one byte at a time.
ReadCountOneByte(size) == Min(1, Len(pipe_buf))

\* ReadFile() on a byte pipe returns as soon as any byte is available, with
\* at most nNumberOfBytesToRead of them.
ReadCount(size) == Min(size, Len(pipe_buf))

\* The owner may call into endpoint e: pipe9x_create() returned it, it has
\* not been closed, and the owner, one thread as in pipe9x-test.c, is not
\* inside another call.
Usable(e) ==
    /\ \A f \in Ends : call[f] \in {"idle", "closed"}
    /\ cpc = "done"
    /\ cret = ERROR_SUCCESS
    /\ out[e] = PTR
    /\ obj[e] = "live"

\* The return value r is the outcome of an operation, reported by result().
ReportsOutcome(r) ==
    /\ r.op = "result"
    /\ r.code \notin {ERROR_IO_INCOMPLETE, ERROR_INVALID_PARAMETER}

\* The caller takes the return value; the endpoint is ready for its next call.
owner_return(e) ==
    /\ call[e] = "ret"
    /\ call' = [call EXCEPT ![e] = "idle"]
    /\ last' = [last EXCEPT ![e] = NoRet]
    /\ rt' = IF e = "r" /\ ReportsOutcome(last[e]) THEN <<>> ELSE rt
    /\ UNCHANGED <<tally, argVars, createVars, pd, obj, mem, live, ev, thr, nat, natres,
                   pipe_buf, wrem, hopen>>

(* ------------------------- pipe9x_read_initiate ------------------------ *)

\* A pipe9x_read_initiate() without the test of pending.
ReadInitiateNeverRefuses == FALSE

\* if(prh->data.pending): a read is already pending and none is started.
ReadInitiateRefuses == pd["r"].pending

\* Value returned when a read is already pending.
ReadInitiateBusy == ERROR_IO_PENDING

\* A pipe9x_read_initiate() that leaves the event as it finds it.
EventNotReset(e) == ev

\* ResetEvent(hEvent) before the worker is created.
ResetEvent(e) == [ev EXCEPT ![e] = FALSE]

\* A pipe9x_read_initiate() that hands on the success of a ReadFile() that
\* completed at once.
ReadCompletedAtOnceSuccess == ERROR_SUCCESS

\* Value returned when the overlapped ReadFile() returns TRUE: the read is
\* treated as pending all the same.
ReadCompletedAtOnce == ERROR_IO_PENDING

\* pipe9x_read_initiate(), up to its return or, on the thread fallback, up
\* to the return of CreateThread().
pipe9x_read_initiate ==
    /\ Usable("r")
    /\ call["r"] = "idle"
    /\ IF ReadInitiateRefuses
       THEN /\ call' = [call EXCEPT !["r"] = "ret"]
            /\ last' = [last EXCEPT !["r"] = RetBusy(ReadInitiateBusy)]
            /\ UNCHANGED <<pd, mem, live, ev, thr, nat, natres, pipe_buf>>
       ELSE IF pd["r"].use_thread_fallback
       THEN IF pd["r"].io_thread # NULL
            THEN \* assert(prh->data.io_thread == NULL)
                 /\ call' = [call EXCEPT !["r"] = "abort"]
                 /\ last' = [last EXCEPT !["r"] = Ret("initiate", "abort", FALSE)]
                 /\ UNCHANGED <<pd, mem, live, ev, thr, nat, natres, pipe_buf>>
            ELSE \E ok \in BOOLEAN :
                 \* ResetEvent(); CreateThread()
                 /\ ev' = ResetEvent("r")
                 /\ mem' = [mem EXCEPT !["r"] = IF ok THEN <<>> ELSE @]
                 /\ IF ok
                    THEN /\ pd' = [pd EXCEPT !["r"].io_thread = HANDLE]
                         /\ thr' = [thr EXCEPT !["r"] = "run"]
                         /\ live' = live \cup {Res("r", "thread")}
                         /\ call' = [call EXCEPT !["r"] = "initiate_spawned"]
                         /\ last' = last
                    ELSE /\ call' = [call EXCEPT !["r"] = "ret"]
                         /\ last' = [last EXCEPT !["r"] = Ret("initiate", ERROR_OTHER, FALSE)]
                         /\ UNCHANGED <<pd, thr, live>>
                 /\ UNCHANGED <<nat, natres, pipe_buf>>
       ELSE \E os \in {"complete", "pending", "fail"} :
            \* ReadFile() with an OVERLAPPED: the OS resets the event, then
            \* completes at once, queues the read, or rejects it.
            /\ call' = [call EXCEPT !["r"] = "ret"]
            /\ UNCHANGED <<live, thr>>
            /\ CASE os = "complete" ->
                     /\ pipe_buf # <<>>
                     /\ LET n == ReadCount(pd["r"].rw_buf_size) IN
                        /\ mem' = [mem EXCEPT !["r"] = SubSeq(pipe_buf, 1, n)]
                        /\ pipe_buf' = SubSeq(pipe_buf, n + 1, Len(pipe_buf))
                        /\ pd' = [pd EXCEPT !["r"].pending = TRUE]
                        /\ natres' = [natres EXCEPT !["r"] = [code |-> ERROR_SUCCESS, n |-> n]]
                     /\ nat' = [nat EXCEPT !["r"] = "done"]
                     /\ ev' = [ev EXCEPT !["r"] = TRUE]
                     /\ last' = [last EXCEPT !["r"] = Ret("initiate", ReadCompletedAtOnce, FALSE)]
                 [] os = "pending" ->
                     /\ pd' = [pd EXCEPT !["r"].pending = TRUE]
                     /\ nat' = [nat EXCEPT !["r"] = "inflight"]
                     /\ ev' = [ev EXCEPT !["r"] = FALSE]
                     /\ last' = [last EXCEPT !["r"] = Ret("initiate", ERROR_IO_PENDING, FALSE)]
                     /\ mem' = [mem EXCEPT !["r"] = <<>>]
                     /\ UNCHANGED <<natres, pipe_buf>>
                 [] os = "fail" ->
                     /\ PipeBroken
                     /\ ev' = [ev EXCEPT !["r"] = FALSE]
                     /\ last' = [last EXCEPT !["r"] = Ret("initiate", ERROR_BROKEN_PIPE, FALSE)]
                     /\ UNCHANGED <<pd, mem, nat, natres, pipe_buf>>
    \* a read started before the write has been retired does not follow it
    /\ rt' = IF ~ReadInitiateRefuses /\ pd["w"].pending THEN <<>> ELSE rt
    /\ UNCHANGED <<tally, argVars, createVars, obj, wrem, hopen>>

\* prh->data.pending = TRUE; return ERROR_IO_PENDING; after CreateThread().
pipe9x_read_initiate_spawned ==
    /\ call["r"] = "initiate_spawned"
    /\ pd' = [pd EXCEPT !["r"].pending = TRUE]
    /\ call' = [call EXCEPT !["r"] = "ret"]
    /\ last' = [last EXCEPT !["r"] = Ret("initiate", ERROR_IO_PENDING, FALSE)]
    /\ UNCHANGED <<rt, tally, argVars, createVars, obj, mem, live, ev, thr, nat, natres,
                   pipe_buf, wrem, hopen>>

(* -------------------------- _pipe9x_read_thread ------------------------ *)

\* The blocking ReadFile() of the worker returns in the way os and
\* io_result is stored: with bytes, or with the pipe broken. The worker reads
\* prh->data.pipe with no synchronisation against _pipe9x_cleanup(), which
\* closes the handle and stores NULL in it before joining the worker: a
\* worker already inside ReadFile() may have its call aborted, and one that
\* had not yet called it calls ReadFile(NULL), which fails with
\* ERROR_INVALID_HANDLE.
pipe9x_read_thread_returns(os) ==
    /\ thr["r"] = "run"
    /\ CASE os = "data" ->
                /\ pipe_buf # <<>>
                /\ LET n == ReadCount(pd["r"].rw_buf_size) IN
                   /\ mem' = [mem EXCEPT !["r"] = SubSeq(pipe_buf, 1, n)]
                   /\ pipe_buf' = SubSeq(pipe_buf, n + 1, Len(pipe_buf))
                   /\ pd' = [pd EXCEPT !["r"].bytes_transferred = n,
                                       !["r"].io_result = ERROR_SUCCESS]
          [] os = "broken" ->
                /\ PipeBroken
                /\ pd' = [pd EXCEPT !["r"].io_result = ERROR_BROKEN_PIPE]
                /\ UNCHANGED <<mem, pipe_buf>>
          [] os = "aborted" ->
                /\ ~hopen["r"]
                /\ pd' = [pd EXCEPT !["r"].io_result = ERROR_OPERATION_ABORTED]
                /\ UNCHANGED <<mem, pipe_buf>>
          [] os = "invalid" ->
                /\ ~hopen["r"]
                /\ pd' = [pd EXCEPT !["r"].io_result = ERROR_INVALID_HANDLE]
                /\ UNCHANGED <<mem, pipe_buf>>
    /\ thr' = [thr EXCEPT !["r"] = "io_done"]
    /\ UNCHANGED <<rt, tally, argVars, createVars, obj, live, ev, nat, natres, wrem, hopen,
                   call, last>>

\* The worker of the read endpoint inside its blocking ReadFile().
pipe9x_read_thread_io ==
    \E os \in {"data", "broken", "aborted", "invalid"} :
        pipe9x_read_thread_returns(os)

\* SetEvent(prh->data.overlapped.hEvent).
pipe9x_read_thread_signal ==
    /\ thr["r"] = "io_done"
    /\ ev' = [ev EXCEPT !["r"] = TRUE]
    /\ thr' = [thr EXCEPT !["r"] = "set"]
    /\ UNCHANGED <<rt, tally, argVars, createVars, pd, obj, mem, live, nat, natres, pipe_buf,
                   wrem, hopen, call, last>>

\* return 0; the thread terminates and its handle becomes signalled.
pipe9x_read_thread_exit ==
    /\ thr["r"] = "set"
    /\ thr' = [thr EXCEPT !["r"] = "exited"]
    /\ UNCHANGED <<rt, tally, argVars, createVars, pd, obj, mem, live, ev, nat, natres,
                   pipe_buf, wrem, hopen, call, last>>

\* A queued overlapped read completes inside the OS, which stores the
\* outcome in the OVERLAPPED and signals its event.
os_read_complete ==
    /\ nat["r"] = "inflight"
    /\ \E os \in {"data", "broken", "aborted"} :
        CASE os = "data" ->
                /\ pipe_buf # <<>>
                /\ LET n == ReadCount(pd["r"].rw_buf_size) IN
                   /\ mem' = [mem EXCEPT !["r"] = SubSeq(pipe_buf, 1, n)]
                   /\ pipe_buf' = SubSeq(pipe_buf, n + 1, Len(pipe_buf))
                   /\ natres' = [natres EXCEPT !["r"] = [code |-> ERROR_SUCCESS, n |-> n]]
          [] os = "broken" ->
                /\ PipeBroken
                /\ natres' = [natres EXCEPT !["r"] = [code |-> ERROR_BROKEN_PIPE, n |-> 0]]
                /\ UNCHANGED <<mem, pipe_buf>>
          [] os = "aborted" ->
                /\ ~hopen["r"]
                /\ natres' = [natres EXCEPT !["r"] = [code |-> ERROR_OPERATION_ABORTED, n |-> 0]]
                /\ UNCHANGED <<mem, pipe_buf>>
    /\ nat' = [nat EXCEPT !["r"] = "done"]
    /\ ev' = IF Res("r", "event") \in live THEN [ev EXCEPT !["r"] = TRUE] ELSE ev
    /\ UNCHANGED <<rt, tally, argVars, createVars, pd, obj, live, thr, wrem, hopen, call, last>>

(* -------------------------- pipe9x_read_result ------------------------- *)

\* io_result and bytes_transferred keep their values after
\* pipe9x_read_result() has reported them. What they hold from then on is
\* the outcome of an operation already retired: it is recorded as "STALE",
\* so that any later report of an old outcome shows as such.
Consumed(p) == [p EXCEPT !.io_result = "STALE", !.bytes_transferred = 0]

\* A pipe9x_read_result() that closes the worker handle and keeps it in
\* io_thread.
JoinedThreadKept == HANDLE

\* prh->data.io_thread = NULL; after CloseHandle(prh->data.io_thread).
JoinedThread == NULL

\* A pipe9x_read_result() that reports the size of the buffer, not the
\* number of bytes the read has put into it.
DataSizeOutBufferSize(bytes_transferred, rw_buf_size) == rw_buf_size

\* *data_size_out = bytes_transferred;
DataSizeOut(bytes_transferred, rw_buf_size) == bytes_transferred

\* Retire the operation of the thread fallback once the worker has been
\* joined: pending = FALSE, CloseHandle(io_thread), outputs written only
\* when io_result is ERROR_SUCCESS.
ReadRetireThread(wait) ==
    /\ pd' = [pd EXCEPT !["r"] = Consumed([@ EXCEPT !.pending = FALSE,
                                                    !.io_thread = JoinedThread])]
    /\ thr' = [thr EXCEPT !["r"] = "none"]
    /\ live' = live \ {Res("r", "thread")}
    /\ call' = [call EXCEPT !["r"] = "ret"]
    /\ last' = [last EXCEPT !["r"] =
                  IF pd["r"].io_result = ERROR_SUCCESS
                  THEN RetData("result", ERROR_SUCCESS, wait,
                               DataSizeOut(pd["r"].bytes_transferred,
                                           pd["r"].rw_buf_size))
                  ELSE Ret("result", pd["r"].io_result, wait)]

\* What GetOverlappedResult() reports for the overlapped operation of e
\* when it does not wait: its outcome, or ERROR_IO_INCOMPLETE.
NativeStatus(e) == IF nat[e] = "done" THEN natres[e].code ELSE ERROR_IO_INCOMPLETE

\* A pipe9x_read_result() with the test of ERROR_IO_INCOMPLETE inverted.
ReadKeepsPendingInverted(error) == error # ERROR_IO_INCOMPLETE

\* A pipe9x_read_result() that clears pending whatever GetOverlappedResult()
\* reports.
ReadNeverKeepsPending(error) == FALSE

\* A pipe9x_read_result() that never clears pending on a failure.
ReadAlwaysKeepsPending(error) == TRUE

\* Whether a failed GetOverlappedResult() leaves the operation pending.
ReadKeepsPending(error) == error = ERROR_IO_INCOMPLETE

\* The overlapped branch of pipe9x_read_result() after GetOverlappedResult()
\* has returned.
ReadRetireNative(wait) ==
    LET error == NativeStatus("r") IN
    /\ pd' = [pd EXCEPT !["r"].pending =
                  IF error = ERROR_SUCCESS THEN FALSE
                  ELSE IF ReadKeepsPending(error) THEN @ ELSE FALSE]
    /\ nat' = [nat EXCEPT !["r"] = IF @ = "done" THEN "none" ELSE @]
    /\ call' = [call EXCEPT !["r"] = "ret"]
    /\ last' = [last EXCEPT !["r"] =
                  IF error = ERROR_SUCCESS
                  THEN RetData("result", ERROR_SUCCESS, wait,
                               DataSizeOut(natres["r"].n, pd["r"].rw_buf_size))
                  ELSE Ret("result", error, wait)]

\* A pipe9x_read_result() without the test of pending.
ReadResultNeverRefuses == FALSE

\* if(!prh->data.pending): there is nothing to report.
ReadResultRefuses == ~pd["r"].pending

\* A pipe9x_read_result() that takes the event for signalled without
\* looking at it.
ReadEventAssumedReady == TRUE

\* Whether the first wait of pipe9x_read_result() on the thread fallback
\* (WaitForSingleObject on the event) finds the operation finished.
ReadEventReady == ev["r"]

\* A pipe9x_read_result() that goes on without joining the worker.
WorkerNeverJoined(e) == TRUE

\* WaitForSingleObject(io_thread, INFINITE) returns: the worker has
\* terminated.
WorkerJoined(e) == thr[e] = "exited"

\* A pipe9x_read_result() that only ever polls the event.
ReadNeverWaits(wait) == FALSE

\* WaitForSingleObject(hEvent, (wait ? INFINITE : 0)): whether the wait for
\* the event is without limit.
ReadWaits(wait) == wait

\* pipe9x_read_result(prh, &data, &data_size, wait), up to its return or to
\* the point where it blocks.
pipe9x_read_result ==
    /\ Usable("r")
    /\ call["r"] = "idle"
    /\ \E wait \in BOOLEAN :
        IF ReadResultRefuses
        THEN /\ call' = [call EXCEPT !["r"] = "ret"]
             /\ last' = [last EXCEPT !["r"] = Ret("result", ERROR_INVALID_PARAMETER, wait)]
             /\ UNCHANGED <<pd, live, thr, nat>>
        ELSE IF pd["r"].use_thread_fallback
        THEN IF pd["r"].io_thread = NULL
             THEN \* assert(prh->data.io_thread != NULL)
                  /\ call' = [call EXCEPT !["r"] = "abort"]
                  /\ last' = [last EXCEPT !["r"] = Ret("result", "abort", wait)]
                  /\ UNCHANGED <<pd, live, thr, nat>>
             ELSE IF ReadEventReady
             THEN IF WorkerJoined("r")
                  THEN ReadRetireThread(wait) /\ nat' = nat
                  ELSE \* WaitForSingleObject(io_thread, INFINITE) blocks
                       /\ call' = [call EXCEPT !["r"] = "result_join"]
                       /\ last' = [last EXCEPT !["r"] = Ret("result_blocked", "none", wait)]
                       /\ UNCHANGED <<pd, live, thr, nat>>
             ELSE IF ReadWaits(wait)
             THEN /\ call' = [call EXCEPT !["r"] = "result_wait"]
                  /\ last' = [last EXCEPT !["r"] = Ret("result_blocked", "none", wait)]
                  /\ UNCHANGED <<pd, live, thr, nat>>
             ELSE /\ call' = [call EXCEPT !["r"] = "ret"]
                  /\ last' = [last EXCEPT !["r"] = Ret("result", ERROR_IO_INCOMPLETE, wait)]
                  /\ UNCHANGED <<pd, live, thr, nat>>
        ELSE IF wait /\ nat["r"] # "done"
             THEN \* GetOverlappedResult(..., TRUE) blocks
                  /\ call' = [call EXCEPT !["r"] = "result_wait"]
                  /\ last' = [last EXCEPT !["r"] = Ret("result_blocked", "none", wait)]
                  /\ UNCHANGED <<pd, live, thr, nat>>
             ELSE ReadRetireNative(wait) /\ UNCHANGED <<live, thr>>
    \* the OVERLAPPED holds no outcome once the operation is retired
    /\ natres' = [natres EXCEPT !["r"] = IF nat'["r"] = "none" THEN NoNatRes ELSE @]
    /\ tally' = IF call'["r"] = "ret" THEN BookedRead(last'["r"]) ELSE tally
    /\ UNCHANGED <<rt, argVars, createVars, obj, mem, ev, pipe_buf, wrem, hopen>>

\* A pipe9x_read_result() that was blocked gets on: the event wait returns
\* (then the worker is joined), the join returns, or the blocking
\* GetOverlappedResult() returns.
pipe9x_read_result_wake ==
    /\ call["r"] \in {"result_wait", "result_join"}
    /\ IF pd["r"].use_thread_fallback
       THEN /\ call["r"] = "result_wait" => ReadEventReady
            /\ IF WorkerJoined("r")
               THEN ReadRetireThread(last["r"].wait)
               ELSE /\ call["r"] = "result_wait"
                    /\ call' = [call EXCEPT !["r"] = "result_join"]
                    /\ UNCHANGED <<pd, live, thr, last>>
            /\ nat' = nat
       ELSE /\ nat["r"] = "done"
            /\ ReadRetireNative(last["r"].wait)
            /\ UNCHANGED <<live, thr>>
    \* the OVERLAPPED holds no outcome once the operation is retired
    /\ natres' = [natres EXCEPT !["r"] = IF nat'["r"] = "none" THEN NoNatRes ELSE @]
    /\ tally' = IF call'["r"] = "ret" THEN BookedRead(last'["r"]) ELSE tally
    /\ UNCHANGED <<rt, argVars, createVars, obj, mem, ev, pipe_buf, wrem, hopen>>

(* ----------------------- pipe9x_read_close / cleanup ------------------- *)

\* A _pipe9x_cleanup() that does not wait for the pending operation.
CleanupNeverWaits(e) == TRUE

\* What _pipe9x_cleanup() waits for when an operation is pending: the worker
\* thread on the thread fallback, the event on the overlapped path.
CleanupWaitOver(e) ==
    IF pd[e].use_thread_fallback THEN thr[e] = "exited" ELSE ev[e]

\* The tail of _pipe9x_cleanup() and the free() of the endpoint object.
CloseFinish(e) ==
    /\ pd' = [pd EXCEPT ![e] = CleanupFields(pd[e])]
    /\ live' = live \ CleanupReleases(e, pd[e])
    /\ obj' = [obj EXCEPT ![e] = "freed"]
    /\ hopen' = [hopen EXCEPT ![e] = FALSE]
    /\ thr' = [thr EXCEPT ![e] = IF pd[e].pending /\ pd[e].use_thread_fallback
                                  THEN "none" ELSE @]
    /\ call' = [call EXCEPT ![e] = "closed"]
    /\ last' = [last EXCEPT ![e] = Ret("close", "none", FALSE)]

\* pipe9x_read_close() / pipe9x_write_close() on a live endpoint: the pipe
\* handle is closed first; then, with an operation pending, the call waits
\* for it; then the event is closed and the object freed.
pipe9x_close(e) ==
    /\ Usable(e)
    /\ call[e] = "idle"
    /\ IF pd[e].pending /\ pd[e].use_thread_fallback /\ pd[e].io_thread = NULL
       THEN \* assert(pd->io_thread != NULL)
            /\ call' = [call EXCEPT ![e] = "abort"]
            /\ last' = [last EXCEPT ![e] = Ret("close", "abort", FALSE)]
            /\ UNCHANGED <<pd, live, obj, hopen, thr>>
       ELSE IF pd[e].pending /\ ~CleanupWaitOver(e)
       THEN /\ pd' = [pd EXCEPT ![e].pipe = IF @ # INVALID_HANDLE_VALUE THEN NULL ELSE @]
            /\ live' = live \ {Res(e, "pipe")}
            /\ hopen' = [hopen EXCEPT ![e] = FALSE]
            /\ call' = [call EXCEPT ![e] = "close_wait"]
            /\ last' = [last EXCEPT ![e] = Ret("close_blocked", "none", FALSE)]
            /\ UNCHANGED <<obj, thr>>
       ELSE CloseFinish(e)
    \* no read follows once the reader is closed, and a write cut short by
    \* the close of its endpoint is not a write that was made
    /\ rt' = IF e = "r" \/ pd["w"].pending THEN <<>> ELSE rt
    \* the books are closed with the read endpoint
    /\ tally' = IF e = "r" THEN [Tally0 EXCEPT !.asked = tally.asked]
                ELSE [tally EXCEPT !.unretired = pd["w"].pending, !.asked = 0]
    /\ UNCHANGED <<argVars, createVars, mem, ev, nat, natres, pipe_buf, wrem>>

\* The wait inside _pipe9x_cleanup() returns.
pipe9x_close_wake(e) ==
    /\ call[e] = "close_wait"
    /\ CleanupWaitOver(e)
    /\ CloseFinish(e)
    /\ UNCHANGED <<rt, tally, argVars, createVars, mem, ev, nat, natres, pipe_buf, wrem>>

pipe9x_read_close == pipe9x_close("r")

pipe9x_write_close == pipe9x_close("w")

(* ------------------------- pipe9x_write_initiate ----------------------- *)

\* Byte sequences a caller hands to pipe9x_write_initiate(): non-empty and
\* no longer than the capacity of the endpoint's transfer buffer.
WriteData(cap) == UNION { [1..n -> Byte] : n \in 1..cap }

\* A write started now is alone in the pipe, and the read that takes it is
\* the next read to report: the pipe is empty, no other write is under way
\* and the read endpoint is open, with no read pending or, as in
\* pipe9x-test.c, with a read pending that is still waiting for bytes.
RoundTripStarts ==
    /\ pipe_buf = <<>>
    /\ wrem = <<>>
    /\ obj["r"] = "live"
    /\ pd["r"].pending =>
          IF pd["r"].use_thread_fallback THEN thr["r"] = "run"
          ELSE nat["r"] = "inflight"

\* pipe9x_write_initiate(pwh, data, data_size): refuse when a write is
\* pending; otherwise copy the data into rw_buf and start the write, on a
\* worker thread (pending set together with the spawn) or overlapped.
pipe9x_write_initiate ==
    /\ Usable("w")
    /\ call["w"] = "idle"
    /\ call' = [call EXCEPT !["w"] = "ret"]
    /\ IF pd["w"].pending
       THEN /\ last' = [last EXCEPT !["w"] = RetBusy(ERROR_IO_INCOMPLETE)]
            /\ UNCHANGED <<pd, mem, live, ev, thr, nat, natres, pipe_buf, wrem, rt,
                           tally>>
       ELSE \E data \in WriteData(pd["w"].rw_buf_size), os \in {"complete", "pending", "fail"} :
            /\ rt' = IF os # "fail" /\ RoundTripStarts THEN data ELSE <<>>
            /\ tally' = IF os # "fail" THEN [tally EXCEPT !.asked = Len(data)]
                        ELSE tally
            \* memcpy(rw_buf, data, data_size); rw_buf is read by the backend
            \* until the write is over, and its contents matter no longer
            /\ IF pd["w"].use_thread_fallback
               THEN /\ ev' = [ev EXCEPT !["w"] = FALSE]
                    /\ os # "complete"
                    /\ mem' = [mem EXCEPT !["w"] = IF os = "pending" THEN data ELSE <<>>]
                    /\ IF os = "pending"
                       THEN /\ pd' = [pd EXCEPT !["w"].io_thread = HANDLE,
                                                !["w"].pending = TRUE]
                            /\ thr' = [thr EXCEPT !["w"] = "run"]
                            /\ live' = live \cup {Res("w", "thread")}
                            /\ wrem' = data
                            /\ last' = [last EXCEPT !["w"] =
                                          Ret("initiate", ERROR_IO_PENDING, FALSE)]
                       ELSE /\ last' = [last EXCEPT !["w"] =
                                          Ret("initiate", ERROR_OTHER, FALSE)]
                            /\ UNCHANGED <<pd, thr, live, wrem>>
                    /\ UNCHANGED <<nat, natres, pipe_buf>>
               ELSE /\ UNCHANGED <<live, thr>>
                    /\ CASE os = "complete" ->
                             /\ hopen["r"]
                             /\ Len(data) <= PipeSpace
                             /\ pipe_buf' = pipe_buf \o data
                             /\ mem' = [mem EXCEPT !["w"] = <<>>]
                             /\ pd' = [pd EXCEPT !["w"].pending = TRUE]
                             /\ nat' = [nat EXCEPT !["w"] = "done"]
                             /\ natres' = [natres EXCEPT !["w"] =
                                             [code |-> ERROR_SUCCESS, n |-> Len(data)]]
                             /\ ev' = [ev EXCEPT !["w"] = TRUE]
                             /\ last' = [last EXCEPT !["w"] =
                                           Ret("initiate", ERROR_IO_PENDING, FALSE)]
                             /\ wrem' = wrem
                         [] os = "pending" ->
                             /\ mem' = [mem EXCEPT !["w"] = data]
                             /\ pd' = [pd EXCEPT !["w"].pending = TRUE]
                             /\ nat' = [nat EXCEPT !["w"] = "inflight"]
                             /\ ev' = [ev EXCEPT !["w"] = FALSE]
                             /\ wrem' = data
                             /\ last' = [last EXCEPT !["w"] =
                                           Ret("initiate", ERROR_IO_PENDING, FALSE)]
                             /\ UNCHANGED <<natres, pipe_buf>>
                         [] os = "fail" ->
                             /\ ~hopen["r"]
                             /\ ev' = [ev EXCEPT !["w"] = FALSE]
                             /\ last' = [last EXCEPT !["w"] =
                                           Ret("initiate", ERROR_NO_DATA, FALSE)]
                             /\ UNCHANGED <<pd, mem, nat, natres, pipe_buf, wrem>>
    /\ UNCHANGED <<argVars, createVars, obj, hopen>>

\* How the write in flight gets on inside the OS: the pipe takes as many of
\* its bytes as it has room for; with the read end closed the write fails;
\* with the endpoint's own handle closed under it the write may be aborted.
\* Gives the outcome once the write is over, "none" while bytes remain.
WriteStep(os) ==
    CASE os = "take" ->
            /\ hopen["r"]
            /\ PipeSpace > 0
            /\ LET k == Min(PipeSpace, Len(wrem)) IN
               /\ pipe_buf' = pipe_buf \o SubSeq(wrem, 1, k)
               /\ wrem' = SubSeq(wrem, k + 1, Len(wrem))
      [] os = "nodata" ->
            /\ ~hopen["r"]
            /\ wrem' = <<>>
            /\ pipe_buf' = pipe_buf
      [] os \in {"aborted", "invalid"} ->
            /\ ~hopen["w"]
            /\ wrem' = <<>>
            /\ pipe_buf' = pipe_buf

WriteOutcome(os) ==
    CASE os = "take" -> IF Len(wrem) <= PipeSpace THEN ERROR_SUCCESS ELSE "none"
      [] os = "nodata" -> ERROR_NO_DATA
      [] os = "aborted" -> ERROR_OPERATION_ABORTED
      [] os = "invalid" -> ERROR_INVALID_HANDLE

\* The blocking WriteFile() of the worker gets on in the way os; when the
\* call returns, bytes_transferred and io_result are stored.
pipe9x_write_thread_steps(os) ==
    /\ thr["w"] = "run"
    /\ wrem # <<>>
    /\ WriteStep(os)
    /\ IF WriteOutcome(os) = "none"
       THEN UNCHANGED <<pd, thr, mem>>
       ELSE /\ mem' = [mem EXCEPT !["w"] = <<>>]
            /\ pd' = [pd EXCEPT !["w"].io_result = WriteOutcome(os),
                                !["w"].bytes_transferred =
                                    IF WriteOutcome(os) = ERROR_SUCCESS
                                    THEN Len(mem["w"]) ELSE @]
            /\ thr' = [thr EXCEPT !["w"] = "io_done"]
    /\ UNCHANGED <<rt, tally, argVars, createVars, obj, live, ev, nat, natres, hopen,
                   call, last>>

\* The worker of the write endpoint inside its blocking WriteFile().
pipe9x_write_thread_io ==
    \E os \in {"take", "nodata", "aborted", "invalid"} :
        pipe9x_write_thread_steps(os)

pipe9x_write_thread_signal ==
    /\ thr["w"] = "io_done"
    /\ ev' = [ev EXCEPT !["w"] = TRUE]
    /\ thr' = [thr EXCEPT !["w"] = "set"]
    /\ UNCHANGED <<rt, tally, argVars, createVars, pd, obj, mem, live, nat, natres, pipe_buf,
                   wrem, hopen, call, last>>

pipe9x_write_thread_exit ==
    /\ thr["w"] = "set"
    /\ thr' = [thr EXCEPT !["w"] = "exited"]
    /\ UNCHANGED <<rt, tally, argVars, createVars, pd, obj, mem, live, ev, nat, natres,
                   pipe_buf, wrem, hopen, call, last>>

\* A queued overlapped write gets on inside the OS; when it is over the OS
\* stores the outcome and signals the event.
os_write_complete ==
    /\ nat["w"] = "inflight"
    /\ wrem # <<>>
    /\ \E os \in {"take", "nodata", "aborted"} :
        /\ WriteStep(os)
        /\ IF WriteOutcome(os) = "none"
           THEN UNCHANGED <<nat, natres, ev, mem>>
           ELSE /\ mem' = [mem EXCEPT !["w"] = <<>>]
                /\ nat' = [nat EXCEPT !["w"] = "done"]
                /\ natres' = [natres EXCEPT !["w"] =
                                [code |-> WriteOutcome(os),
                                 n |-> IF WriteOutcome(os) = ERROR_SUCCESS
                                       THEN Len(mem["w"]) ELSE 0]]
                /\ ev' = IF Res("w", "event") \in live
                         THEN [ev EXCEPT !["w"] = TRUE] ELSE ev
    /\ UNCHANGED <<rt, tally, argVars, createVars, pd, obj, live, thr, hopen, call, last>>

(* -------------------------- pipe9x_write_result ------------------------ *)

\* A pipe9x_write_result() that takes the event for signalled without
\* looking at it.
WriteEventAssumedReady == TRUE

\* Whether the first wait of pipe9x_write_result() on the thread fallback
\* finds the write finished.
WriteEventReady == ev["w"]

WriteRetireThread(wait) ==
    /\ pd' = [pd EXCEPT !["w"] = Consumed([@ EXCEPT !.pending = FALSE, !.io_thread = NULL])]
    /\ thr' = [thr EXCEPT !["w"] = "none"]
    /\ live' = live \ {Res("w", "thread")}
    /\ call' = [call EXCEPT !["w"] = "ret"]
    /\ last' = [last EXCEPT !["w"] =
                  IF pd["w"].io_result = ERROR_SUCCESS
                  THEN RetData("result", ERROR_SUCCESS, wait, pd["w"].bytes_transferred)
                  ELSE Ret("result", pd["w"].io_result, wait)]

WriteRetireNative(wait) ==
    LET error == NativeStatus("w") IN
    /\ pd' = [pd EXCEPT !["w"].pending = IF error = ERROR_IO_INCOMPLETE THEN @ ELSE FALSE]
    /\ nat' = [nat EXCEPT !["w"] = IF @ = "done" THEN "none" ELSE @]
    /\ call' = [call EXCEPT !["w"] = "ret"]
    /\ last' = [last EXCEPT !["w"] =
                  IF error = ERROR_SUCCESS
                  THEN RetData("result", ERROR_SUCCESS, wait, natres["w"].n)
                  ELSE Ret("result", error, wait)]

\* pipe9x_write_result(pwh, &data_written, wait), up to its return or to the
\* point where it blocks.
pipe9x_write_result ==
    /\ Usable("w")
    /\ call["w"] = "idle"
    /\ \E wait \in BOOLEAN :
        IF ~pd["w"].pending
        THEN /\ call' = [call EXCEPT !["w"] = "ret"]
             /\ last' = [last EXCEPT !["w"] = Ret("result", ERROR_INVALID_PARAMETER, wait)]
             /\ UNCHANGED <<pd, live, thr, nat>>
        ELSE IF pd["w"].use_thread_fallback
        THEN IF WriteEventReady
             THEN IF thr["w"] = "exited"
                  THEN WriteRetireThread(wait) /\ nat' = nat
                  ELSE /\ call' = [call EXCEPT !["w"] = "result_join"]
                       /\ last' = [last EXCEPT !["w"] = Ret("result_blocked", "none", wait)]
                       /\ UNCHANGED <<pd, live, thr, nat>>
             ELSE IF wait
             THEN /\ call' = [call EXCEPT !["w"] = "result_wait"]
                  /\ last' = [last EXCEPT !["w"] = Ret("result_blocked", "none", wait)]
                  /\ UNCHANGED <<pd, live, thr, nat>>
             ELSE /\ call' = [call EXCEPT !["w"] = "ret"]
                  /\ last' = [last EXCEPT !["w"] = Ret("result", ERROR_IO_INCOMPLETE, wait)]
                  /\ UNCHANGED <<pd, live, thr, nat>>
        ELSE IF wait /\ nat["w"] # "done"
             THEN /\ call' = [call EXCEPT !["w"] = "result_wait"]
                  /\ last' = [last EXCEPT !["w"] = Ret("result_blocked", "none", wait)]
                  /\ UNCHANGED <<pd, live, thr, nat>>
             ELSE WriteRetireNative(wait) /\ UNCHANGED <<live, thr>>
    \* the OVERLAPPED holds no outcome once the operation is retired
    /\ natres' = [natres EXCEPT !["w"] = IF nat'["w"] = "none" THEN NoNatRes ELSE @]
    /\ tally' = IF call'["w"] = "ret" THEN BookedWrite(last'["w"]) ELSE tally
    /\ UNCHANGED <<rt, argVars, createVars, obj, mem, ev, pipe_buf, wrem, hopen>>

pipe9x_write_result_wake ==
    /\ call["w"] \in {"result_wait", "result_join"}
    /\ IF pd["w"].use_thread_fallback
       THEN /\ call["w"] = "result_wait" => WriteEventReady
            /\ IF thr["w"] = "exited"
               THEN WriteRetireThread(last["w"].wait)
               ELSE /\ call["w"] = "result_wait"
                    /\ call' = [call EXCEPT !["w"] = "result_join"]
                    /\ UNCHANGED <<pd, live, thr, last>>
            /\ nat' = nat
       ELSE /\ nat["w"] = "done"
            /\ WriteRetireNative(last["w"].wait)
            /\ UNCHANGED <<live, thr>>
    \* the OVERLAPPED holds no outcome once the operation is retired
    /\ natres' = [natres EXCEPT !["w"] = IF nat'["w"] = "none" THEN NoNatRes ELSE @]
    /\ tally' = IF call'["w"] = "ret" THEN BookedWrite(last'["w"]) ELSE tally
    /\ UNCHANGED <<rt, argVars, createVars, obj, mem, ev, pipe_buf, wrem, hopen>>

(* ---------------------------- specification ---------------------------- *)

Next ==
    \/ create_alloc
    \/ create_bufs
    \/ create_event_r
    \/ create_event_w
    \/ create_namedpipe
    \/ create_connect
    \/ create_createfile
    \/ create_overlapped
    \/ os_accept_complete
    \/ pipe9x_read_initiate
    \/ pipe9x_read_initiate_spawned
    \/ pipe9x_read_thread_io
    \/ pipe9x_read_thread_signal
    \/ pipe9x_read_thread_exit
    \/ os_read_complete
    \/ pipe9x_read_result
    \/ pipe9x_read_result_wake
    \/ pipe9x_write_initiate
    \/ pipe9x_write_thread_io
    \/ pipe9x_write_thread_signal
    \/ pipe9x_write_thread_exit
    \/ os_write_complete
    \/ pipe9x_write_result
    \/ pipe9x_write_result_wake
    \/ pipe9x_read_close
    \/ pipe9x_write_close
    \/ pipe9x_close_wake("r")
    \/ pipe9x_close_wake("w")
    \/ owner_return("r")
    \/ owner_return("w")

Spec == Init /\ [][Next]_vars

SpecPart001 == InitPart001 /\ [][Next]_vars

\* The thread inside pipe9x_create() is not starved: each of its steps that
\* can be taken is taken.
SpecCreateFair ==
    /\ Init /\ [][Next]_vars
    /\ WF_vars(create_alloc)
    /\ WF_vars(create_bufs)
    /\ WF_vars(create_event_r)
    /\ WF_vars(create_event_w)
    /\ WF_vars(create_namedpipe)
    /\ WF_vars(create_connect)
    /\ WF_vars(create_createfile)
    /\ WF_vars(create_overlapped)

\* Threads that can run do run: a worker past its blocking I/O goes on to
\* SetEvent() and to its return, and an owner blocked in result() resumes
\* once what it waits for is signalled. Nothing is asked of the pipe or of
\* the other end.
SpecWorkerFair ==
    /\ Init /\ [][Next]_vars
    /\ WF_vars(pipe9x_read_thread_signal)
    /\ WF_vars(pipe9x_read_thread_exit)
    /\ WF_vars(pipe9x_read_result_wake)
    /\ WF_vars(pipe9x_write_thread_signal)
    /\ WF_vars(pipe9x_write_thread_exit)
    /\ WF_vars(pipe9x_write_result_wake)

\* Everything that only needs to be scheduled happens: workers past their
\* blocking I/O signal and return, blocked owners resume once what they wait
\* for is signalled, and the OS completes the overlapped operations it can
\* complete, those cut short by the close of their handle included. A
\* worker's blocking ReadFile()/WriteFile() returns when the pipe has bytes
\* or room for it or is broken; that it returns because its handle was
\* closed by another thread is possible and not assured.
SpecCloseFair ==
    /\ Init /\ [][Next]_vars
    /\ WF_vars(pipe9x_read_thread_returns("data"))
    /\ WF_vars(pipe9x_read_thread_returns("broken"))
    /\ WF_vars(pipe9x_write_thread_steps("take"))
    /\ WF_vars(pipe9x_write_thread_steps("nodata"))
    /\ WF_vars(pipe9x_read_thread_signal)
    /\ WF_vars(pipe9x_read_thread_exit)
    /\ WF_vars(pipe9x_write_thread_signal)
    /\ WF_vars(pipe9x_write_thread_exit)
    /\ WF_vars(os_read_complete)
    /\ WF_vars(os_write_complete)
    /\ WF_vars(pipe9x_read_result_wake)
    /\ WF_vars(pipe9x_write_result_wake)
    /\ WF_vars(pipe9x_close_wake("r"))
    /\ WF_vars(pipe9x_close_wake("w"))

\* The backend of the write endpoint is not starved: a worker thread that
\* can run does run, and the OS gets on with a queued write it can get on
\* with. Nothing is asked of the owner.
SpecFair ==
    /\ Init /\ [][Next]_vars
    /\ WF_vars(pipe9x_write_thread_io)
    /\ WF_vars(pipe9x_write_thread_signal)
    /\ WF_vars(os_write_complete)

TypeOK ==
    /\ build \in Builds
    /\ read_size \in 0..MaxSize
    /\ write_size \in 0..MaxSize
    /\ Len(pipe_buf) <= pipe_cap
    /\ rt \in {<<>>} \cup WriteData(MaxSize)
    /\ tally.owed \in -(2 * MaxSize)..(2 * MaxSize)
    /\ tally.asked \in 0..MaxSize
    /\ np_error \in {"none", ERROR_SUCCESS, ERROR_FILE_EXISTS,
                    ERROR_CALL_NOT_IMPLEMENTED, ERROR_OTHER}
    /\ \A e \in Ends : call[e] # "abort"

(* ------------------------------- claims -------------------------------- *)

\* Endpoint e has just returned from the call op.
Returned(e, op) == call[e] = "ret" /\ last[e].op = op

\* This step is the owner's call of op on e, from entry to return or block.
Calls(e, op) == call[e] = "idle" /\ call'[e] # "idle" /\ last'[e].op = op

\* This step lets a call of op on e return.
Returns(e, op) == call[e] # "ret" /\ call'[e] = "ret" /\ last'[e].op = op

\* The backend of e has an operation that has not finished yet.
Unfinished(e) ==
    IF pd[e].use_thread_fallback THEN thr[e] \in {"run", "io_done"}
    ELSE nat[e] = "inflight"

\* C1: an initiate() called while an operation is pending on the endpoint
\* returns without starting anything: no worker is created, no OS operation
\* is issued, and pending, the worker, the completion signal, the buffer and
\* the pipe are as they were; an endpoint never has a worker and an
\* overlapped operation at once.
C1_NoSecondOperation ==
    [][\A e \in Ends :
        /\ (Calls(e, "initiate") /\ pd[e].pending) =>
             /\ call'[e] = "ret"
             /\ pd'[e] = pd[e]
             /\ thr'[e] = thr[e]
             /\ nat'[e] = nat[e]
             /\ ev'[e] = ev[e]
             /\ mem'[e] = mem[e]
             /\ live' = live
             /\ wrem' = wrem
             /\ pipe_buf' = pipe_buf
        /\ thr'[e] = "none" \/ nat'[e] = "none"]_vars

\* C1 witness: pipe9x_read_initiate() has returned from a call made while a
\* read was pending and its worker was still blocked in ReadFile().
C1_Witness ==
    /\ Returned("r", "initiate")
    /\ last["r"].busy
    /\ pd["r"].pending
    /\ thr["r"] = "run"

\* C2: an initiate() that finds an operation pending returns
\* ERROR_IO_INCOMPLETE, not the ERROR_IO_PENDING of a successful initiate.
C2_BusyReturnsIncomplete ==
    \A e \in Ends :
        (Returned(e, "initiate") /\ last[e].busy) => last[e].code = ERROR_IO_INCOMPLETE

\* C3: when pipe9x_create() returns success, on either path, neither
\* endpoint is pending and both completion signals are signalled.
C3_SignalledAfterCreate ==
    [][(cpc # "done" /\ cpc' = "done" /\ cret' = ERROR_SUCCESS) =>
         \A e \in Ends : ~pd'[e].pending /\ ev'[e]]_vars

\* C4: create() returns success with both outputs set, or a failure code
\* with both outputs null.
C4_CreateShapes ==
    cpc = "done" =>
        \/ cret = ERROR_SUCCESS /\ \A e \in Ends : out[e] = PTR
        \/ cret # ERROR_SUCCESS /\ \A e \in Ends : out[e] = NULL

\* C5: result() on an endpoint with nothing pending returns
\* ERROR_INVALID_PARAMETER whatever wait is, does not block, does not write
\* its outputs, and leaves pending, the worker and the signal as they were.
C5_ResultWhenIdle ==
    [][\A e \in Ends :
        ((Calls(e, "result") \/ Calls(e, "result_blocked")) /\ ~pd[e].pending) =>
            /\ call'[e] = "ret"
            /\ last'[e].code = ERROR_INVALID_PARAMETER
            /\ ~last'[e].set
            /\ pd'[e] = pd[e]
            /\ thr'[e] = thr[e]
            /\ nat'[e] = nat[e]
            /\ ev'[e] = ev[e]
            /\ live' = live]_vars

\* C5 witness: pipe9x_read_result(..., TRUE) has returned
\* ERROR_INVALID_PARAMETER on an idle read endpoint.
C5_Witness ==
    /\ Returned("r", "result")
    /\ last["r"].code = ERROR_INVALID_PARAMETER
    /\ last["r"].wait
    /\ ~pd["r"].pending

\* C6: pending becomes true exactly when an initiate() on an idle endpoint
\* returns ERROR_IO_PENDING, and becomes false exactly when a result() on a
\* pending endpoint returns something other than ERROR_IO_INCOMPLETE; no
\* step of the backend changes it.
C6_PendingInterval ==
    [][\A e \in Ends :
        (obj[e] = "live" /\ obj'[e] = "live") =>
            /\ (~pd[e].pending /\ pd'[e].pending)
                 <=> (Returns(e, "initiate") /\ ~pd[e].pending
                      /\ last'[e].code = ERROR_IO_PENDING)
            /\ (pd[e].pending /\ ~pd'[e].pending)
                 <=> (Returns(e, "result") /\ pd[e].pending
                      /\ last'[e].code # ERROR_IO_INCOMPLETE)]_vars

\* C6 witness: a poll of the read endpoint has just answered
\* ERROR_IO_INCOMPLETE and the read has finished since (worker gone, signal
\* set): pending is still true because the outcome has not been retrieved.
C6_Witness ==
    /\ Returned("r", "result")
    /\ last["r"].code = ERROR_IO_INCOMPLETE
    /\ pd["r"].pending
    /\ thr["r"] = "exited"
    /\ ev["r"]

\* C7: result(wait = FALSE) on a pending endpoint whose operation has not
\* finished returns ERROR_IO_INCOMPLETE at once, writes no output, and
\* leaves pending, the worker and its handle, and the operation as they
\* were, so that a later result() finds the outcome.
C7_IncompletePoll ==
    [][\A e \in Ends :
        ((Calls(e, "result") \/ Calls(e, "result_blocked"))
            /\ ~last'[e].wait /\ pd[e].pending /\ Unfinished(e)) =>
            /\ call'[e] = "ret"
            /\ last'[e].code = ERROR_IO_INCOMPLETE
            /\ ~last'[e].set
            /\ pd'[e] = pd[e]
            /\ pd'[e].pending
            /\ thr'[e] = thr[e]
            /\ nat'[e] = nat[e]
            /\ natres'[e] = natres[e]
            /\ live' = live]_vars

\* C7 witness: a poll of the read endpoint has returned ERROR_IO_INCOMPLETE
\* while its worker is blocked in ReadFile(), the worker handle still held.
C7_Witness ==
    /\ Returned("r", "result")
    /\ last["r"].code = ERROR_IO_INCOMPLETE
    /\ pd["r"].pending
    /\ pd["r"].io_thread = HANDLE
    /\ thr["r"] = "run"
    /\ Res("r", "thread") \in live

\* C8: after an initiate() has started an operation that has not finished
\* the signal is unsignalled; once the operation has finished it is
\* signalled; and a signalled signal stays so until the next successful
\* initiate().
C8_SignalFollowsOperation ==
    [][\A e \in Ends :
        (obj'[e] = "live") =>
            /\ (Returns(e, "initiate") /\ last'[e].code = ERROR_IO_PENDING
                    /\ Unfinished(e)') => ~ev'[e]
            /\ (pd'[e].pending /\ ~Unfinished(e)') => ev'[e]
            /\ (ev[e] /\ ~ev'[e]) =>
                 \/ Returns(e, "initiate") /\ last'[e].code = ERROR_IO_PENDING
                 \/ call'[e] = "initiate_spawned"]_vars

\* C9: result() reports a terminal outcome only with the completion signal
\* signalled, and the signal it finds is the one of this operation: from the
\* start of the operation until it finishes the signal is unsignalled.
C9_NoResultBeforeSignal ==
    [][\A e \in Ends :
        /\ (Returns(e, "result")
              /\ last'[e].code \notin {ERROR_IO_INCOMPLETE, ERROR_INVALID_PARAMETER})
             => ev[e] /\ ev'[e]
        /\ (obj'[e] = "live" /\ Unfinished(e)') => ~ev'[e]]_vars

\* C9 witness: pipe9x_read_result() has reported ERROR_BROKEN_PIPE, a
\* terminal outcome, with the signal signalled.
C9_Witness ==
    /\ Returned("r", "result")
    /\ last["r"].code = ERROR_BROKEN_PIPE
    /\ ev["r"]

\* C10: when a byte sequence no longer than the buffer capacity has been
\* written to an empty pipe, the read that takes it, initiated after the
\* write was retired or, as in pipe9x-test.c, pending on the empty pipe
\* before the write, reports ERROR_SUCCESS, with a size equal to the number
\* of bytes written and with the buffer holding the same bytes in the same
\* order.
C10_RoundTrip ==
    (Returned("r", "result") /\ ReportsOutcome(last["r"]) /\ rt # <<>>) =>
        /\ last["r"].code = ERROR_SUCCESS
        /\ last["r"].set
        /\ last["r"].size = Len(rt)
        /\ mem["r"] = rt

\* C10 witness: two different bytes were written, the write was retired
\* with the write endpoint still open, and pipe9x_read_result() has
\* reported the read that followed.
C10_Witness ==
    /\ Returned("r", "result")
    /\ ReportsOutcome(last["r"])
    /\ Len(rt) = 2
    /\ rt[1] # rt[2]
    /\ obj["w"] = "live"
    /\ ~pd["w"].pending

\* C11: ERROR_BROKEN_PIPE reaches the owner of the read endpoint only from
\* result(), only with the write end closed and no byte left in the pipe,
\* and with the completion signal signalled; a read that result() reports
\* as successful after the write end was closed carries at least one byte
\* and has the signal signalled as well.
C11_BrokenPipe ==
    /\ (call["r"] = "ret" /\ last["r"].code = ERROR_BROKEN_PIPE) =>
          /\ last["r"].op = "result"
          /\ ~hopen["w"]
          /\ pipe_buf = <<>>
          /\ ev["r"]
    /\ (Returned("r", "result") /\ last["r"].code = ERROR_SUCCESS /\ ~hopen["w"]) =>
          /\ last["r"].size >= 1
          /\ ev["r"]

\* The drained point of the test: pipe9x_read_result() has just returned
\* ERROR_BROKEN_PIPE (pipe9x-test.c:297), the write end is closed and every
\* buffered byte has been read.  A pipe9x_read_initiate() that returns
\* ERROR_BROKEN_PIPE itself (pipe9x.c:366-376) is not this point: the test
\* stops at the assertion of line 291 and compares nothing.
Drained == Returned("r", "result") /\ last["r"].code = ERROR_BROKEN_PIPE

\* C12 as stated: in any session, once the reads have drained the pipe up
\* to the broken-pipe outcome, the bytes reported by successful write
\* results equal the bytes reported by successful read results.
C12_NoDataLoss == Drained => tally.owed = 0

\* C12 amended: the sums are equal when no write was pending at the time
\* the write endpoint was closed, that is when every write that was
\* initiated has been retired by result().
C12_NoDataLossWhenRetired == (Drained /\ ~tally.unretired) => tally.owed = 0

\* C12 witness: bytes have been written and read, every write was retired,
\* and the read endpoint has been told that the pipe is broken.
C12_Witness == Drained /\ ~tally.unretired /\ tally.moved

\* The write in flight has bytes the pipe has not taken yet.
Stalled == obj["w"] = "live" /\ wrem # <<>>

\* No read is under way on the open read endpoint: what has been written
\* and not yet reported as read is still in the pipe.
NothingBeingRead == obj["r"] = "live" /\ ~pd["r"].pending

\* C13: while nothing is being read, the bytes that successful write
\* results have reported and no read result has reported never exceed the
\* buffer size of the pipe, so writes that are not read come to a write
\* that finds the pipe full. A write with bytes the pipe has not taken
\* stays pending with its signal unsignalled, and a poll of it returns
\* ERROR_IO_INCOMPLETE and changes nothing. Once the pipe has room for the
\* rest of the write, the write finishes and its signal becomes signalled
\* (or the endpoint is closed); a result() that then reports an outcome
\* with both ends open reports ERROR_SUCCESS with a byte count of at least
\* 1 and no larger than the size the write was initiated with.
C13_Backpressure ==
    /\ [](NothingBeingRead => tally.owed <= pipe_cap)
    /\ [](Stalled => (pd["w"].pending /\ Unfinished("w") /\ ~ev["w"]))
    /\ [][((Calls("w", "result") \/ Calls("w", "result_blocked"))
             /\ ~last'["w"].wait /\ Stalled) =>
               /\ call'["w"] = "ret"
               /\ last'["w"].code = ERROR_IO_INCOMPLETE
               /\ wrem' = wrem
               /\ pd'["w"] = pd["w"]]_vars
    /\ [][(Returns("w", "result") /\ ReportsOutcome(last'["w"])
             /\ hopen["r"] /\ hopen["w"]) =>
               /\ last'["w"].code = ERROR_SUCCESS
               /\ last'["w"].size >= 1
               /\ last'["w"].size <= tally.asked
               /\ ev["w"]]_vars
    /\ (Stalled /\ Len(wrem) <= PipeSpace) ~> (ev["w"] \/ obj["w"] # "live")

\* C13 witness: nothing has been read, write results have reported as many
\* bytes as the pipe holds, the pipe is full, a further write has been
\* started on top of it, and a poll of that write has just returned
\* ERROR_IO_INCOMPLETE.
C13_Witness ==
    /\ NothingBeingRead
    /\ ~tally.moved
    /\ tally.owed = pipe_cap
    /\ Len(pipe_buf) = pipe_cap
    /\ Stalled
    /\ Returned("w", "result")
    /\ last["w"].code = ERROR_IO_INCOMPLETE

\* The worker thread of e has not terminated, or the overlapped operation
\* of e has not completed.
BackendLive(e) == thr[e] \in {"run", "io_done", "set"} \/ nat[e] = "inflight"

\* C14: while the worker thread of an endpoint has not terminated or its
\* overlapped operation has not completed, the endpoint object, its
\* completion signal and its buffer have not been released, whatever the
\* owner has called; close() returns only after the backend is done.
C14_TeardownSafety ==
    \A e \in Ends :
        /\ BackendLive(e) =>
              /\ obj[e] = "live"
              /\ {Res(e, "obj"), Res(e, "event"), Res(e, "buf")} \subseteq live
        /\ call[e] = "closed" => obj[e] = "freed" /\ ~BackendLive(e)

\* C14 witness: pipe9x_read_close() is blocked in _pipe9x_cleanup() because
\* the worker is still inside ReadFile(); nothing but the pipe handle has
\* been released.
C14_Witness ==
    /\ call["r"] = "close_wait"
    /\ thr["r"] = "run"
    /\ pd["r"].pending
    /\ obj["r"] = "live"
    /\ Res("r", "event") \in live

\* C15: while the worker of an endpoint is inside its blocking call on the
\* pipe, or an overlapped operation on the pipe has not completed, the
\* endpoint's pipe handle is open: close() releases it only after the
\* pending operation has finished.
C15_HandleValidWhilePending ==
    \A e \in Ends :
        (thr[e] = "run" \/ nat[e] = "inflight") =>
            hopen[e] /\ Res(e, "pipe") \in live

\* C16: when pipe9x_create() has allocated the transfer buffers, the
\* capacity of the read endpoint's buffer is read_size and the capacity of
\* the write endpoint's buffer is write_size; a capacity never changes
\* afterwards, and no read result reports more bytes than the capacity of
\* the read endpoint.
C16_BufferCapacities ==
    [][/\ (cpc = "bufs" /\ cpc' = "event_r") =>
            /\ pd'["r"].rw_buf_size = read_size
            /\ pd'["w"].rw_buf_size = write_size
       /\ \A e \in Ends :
            (cpc # "bufs" /\ obj[e] = "live" /\ obj'[e] = "live") =>
                pd'[e].rw_buf_size = pd[e].rw_buf_size
       /\ (Returns("r", "result") /\ last'["r"].code = ERROR_SUCCESS) =>
            last'["r"].size <= pd["r"].rw_buf_size]_vars

\* C17: while no read is pending, that is from the result() that retired a
\* read until pipe9x_read_initiate() is called again or the endpoint is
\* closed, no step other than that call changes the transfer buffer of the
\* read endpoint: the bytes result() handed out stay as they are.
C17_ReturnedBytesStable ==
    [][(/\ obj["r"] = "live" /\ obj'["r"] = "live"
        /\ ~pd["r"].pending
        /\ call["r"] # "initiate_spawned"
        /\ ~(call["r"] = "idle" /\ (Calls("r", "initiate")
                                      \/ call'["r"] = "initiate_spawned")))
          => mem'["r"] = mem["r"]]_vars

\* C17 witness: result() has handed out two bytes and returned, no read has
\* been initiated since, and the writer has put new bytes into the pipe:
\* the buffer still holds what was handed out.
C17_Witness ==
    /\ obj["r"] = "live"
    /\ call["r"] = "idle"
    /\ ~pd["r"].pending
    /\ Len(mem["r"]) = 2
    /\ pipe_buf # <<>>
    /\ tally.moved

\* C18: once an endpoint has been closed, by its owner or on a failure path
\* of pipe9x_create(), nothing it had acquired is still held: not its pipe
\* handle, its transfer buffer, its event, its worker handle or the object.
C18_NoLeak ==
    \A e \in Ends :
        obj[e] = "freed" =>
            \A what \in {"obj", "pipe", "buf", "event", "thread"} :
                Res(e, what) \notin live

\* create() has handed out a pair of endpoints and both are still alive.
PairAlive ==
    /\ cpc = "done"
    /\ \A e \in Ends : out[e] = PTR /\ obj[e] = "live"

C19_SelectedInCreate ==
    PairAlive =>
        /\ cret = ERROR_SUCCESS
        /\ \A e \in Ends :
              pd[e].use_thread_fallback = (np_error = ERROR_CALL_NOT_IMPLEMENTED)
        /\ np_error \in {ERROR_SUCCESS, ERROR_CALL_NOT_IMPLEMENTED}
        /\ np_error = ERROR_CALL_NOT_IMPLEMENTED => accept = "none"
        /\ np_error = ERROR_SUCCESS => accept = "done"

C19_SharedTag ==
    (obj["r"] = "live" /\ obj["w"] = "live") =>
        pd["r"].use_thread_fallback = pd["w"].use_thread_fallback

C19_TagKept ==
    \A e \in Ends :
        (cpc = "done" /\ cpc' = "done" /\ obj[e] = "live" /\ obj'[e] = "live") =>
            pd'[e].use_thread_fallback = pd[e].use_thread_fallback

C19_BackendFollowsTag ==
    \A e \in Ends :
        obj[e] = "live" =>
            /\ thr[e] # "none" => pd[e].use_thread_fallback
            /\ nat[e] # "none" => ~pd[e].use_thread_fallback

\* C19: the backend is chosen once, inside create(): the pair runs on an
\* anonymous pipe with worker threads exactly when CreateNamedPipe() reported
\* ERROR_CALL_NOT_IMPLEMENTED (and then no handshake is run), and on a named
\* pipe with overlapped I/O otherwise; both endpoints carry the same tag, the
\* tag never changes afterwards, and every operation runs on the tagged
\* backend.
C19_BackendSelection ==
    /\ [](C19_SelectedInCreate /\ C19_SharedTag /\ C19_BackendFollowsTag)
    /\ [][C19_TagKept]_vars

\* C19 witness: a pair made on the fallback path has run a read on a worker
\* thread to its end.
C19_Witness ==
    /\ PairAlive
    /\ np_error = ERROR_CALL_NOT_IMPLEMENTED
    /\ \A e \in Ends : pd[e].use_thread_fallback
    /\ accept = "none"
    /\ thr["r"] = "exited"

\* The step of create() in which ConnectNamedPipe() reports the accept as
\* started but not yet complete.
AcceptReportedPending == cpc = "connect" /\ accept' = "inflight"

C20_PendingAcceptGoesOn ==
    AcceptReportedPending =>
        /\ cpc' = "createfile"
        /\ \A e \in Ends : obj'[e] = "live"
        /\ Res("r", "pipe") \in live'

\* The step in which create() returns a pair made on the native path.
NativeCreateReturns ==
    /\ cpc # "done" /\ cpc' = "done"
    /\ np_error' = ERROR_SUCCESS
    /\ \A e \in Ends : out'[e] = PTR

C20_AcceptStarted ==
    cpc \in {"createfile", "overlapped"} => accept \in {"inflight", "done"}

C20_ConnectedPair ==
    NativeCreateReturns =>
        /\ cret' = ERROR_SUCCESS
        /\ accept' = "done"
        /\ \A e \in Ends : obj'[e] = "live" /\ pd'[e].pipe = HANDLE /\ hopen'[e]

\* C20: on the native path create() starts the accept asynchronously; an
\* accept reported as started but not yet complete does not abort create(),
\* which goes on to open the client connection, waits for the accept to
\* complete and only then returns success with a connected pair.
C20_Handshake ==
    /\ []C20_AcceptStarted
    /\ [][C20_ConnectedPair]_vars
    /\ [][C20_PendingAcceptGoesOn]_vars

\* What a round of the CreateNamedPipe() loop may touch when it meets a name
\* collision: the count of rounds and the error it has just seen.
CollisionFrame ==
    <<build, read_size, write_size, cpc, cret, out, pd, obj, mem, live, ev, thr,
      nat, natres, pipe_cap, pipe_buf, wrem, hopen, accept, call, last>>

\* A round of the loop that met a name collision.
Collided == cpc = "namedpipe" /\ np_error' = ERROR_FILE_EXISTS /\ collisions' # collisions

C21_CollisionRetried ==
    /\ Collided => UNCHANGED CollisionFrame
    /\ (cpc = "namedpipe" /\ cpc' = "namedpipe") => Collided
    /\ (cpc = "namedpipe" /\ cpc' # "namedpipe") => np_error' # ERROR_FILE_EXISTS

C21_NeverSurfaced ==
    /\ cret # ERROR_FILE_EXISTS
    /\ cpc \notin {"start", "bufs", "event_r", "event_w", "namedpipe"} =>
            np_error # ERROR_FILE_EXISTS

\* C21: a name collision (ERROR_FILE_EXISTS) is never surfaced: the round of
\* the loop that meets it changes nothing of the endpoints and create() tries
\* again; create() leaves the loop only on an attempt that did not collide,
\* whose outcome is the one create() goes by; and with finitely many
\* collisions in a row create() returns.
C21_CollisionsRetried ==
    /\ []C21_NeverSurfaced
    /\ [][C21_CollisionRetried]_vars
    /\ (cpc = "namedpipe") ~> (cpc = "done")

\* C21 witness: a round of the loop has met a collision and create() is
\* about to try again, both endpoints untouched.
C21_Witness ==
    /\ cpc = "namedpipe"
    /\ collisions >= 1
    /\ np_error = ERROR_FILE_EXISTS
    /\ cret = "none"
    /\ \A e \in Ends : obj[e] = "live" /\ pd[e].pipe = INVALID_HANDLE_VALUE

\* Endpoint e is alive and its owner is between two calls into it.
AtCallBoundary(e) ==
    /\ cpc = "done"
    /\ out[e] = PTR
    /\ obj[e] = "live"
    /\ call[e] \in {"idle", "ret"}

\* C22: between calls into a live endpoint the worker handle io_thread is
\* non-null exactly when the endpoint is on the thread fallback with an
\* operation pending, so the assertions on io_thread in initiate(), result()
\* and cleanup never fire, a failed spawn and a result() that returned an
\* error included.
C22_WorkerHandle ==
    \A e \in Ends :
        /\ call[e] # "abort"
        /\ last[e].code # "abort"
        /\ AtCallBoundary(e) =>
              (pd[e].io_thread # NULL <=> (pd[e].use_thread_fallback /\ pd[e].pending))

\* C22 witness: on the thread fallback a result() has reported an error and
\* left no worker handle behind.
C22_Witness ==
    /\ AtCallBoundary("r")
    /\ pd["r"].use_thread_fallback
    /\ Returned("r", "result")
    /\ last["r"].code = ERROR_BROKEN_PIPE
    /\ pd["r"].io_thread = NULL
    /\ ~pd["r"].pending

\* The worker of endpoint e has been spawned and not yet been joined.
WorkerSpawned(e) == thr[e] \in {"run", "io_done", "set", "exited"}

\* C23: on the thread fallback pending is set before or together with the
\* spawn of the worker: in no state is a worker running, or done and
\* signalled, while pending is still false.
C23_PendingBeforeSpawn ==
    \A e \in Ends :
        (obj[e] = "live" /\ WorkerSpawned(e)) => pd[e].pending

\* A return code of result() that reports the failure of the operation.
TerminalFailure(code) ==
    code \notin {ERROR_SUCCESS, ERROR_IO_INCOMPLETE, ERROR_INVALID_PARAMETER,
                 "none", "abort"}

\* The error the backend of e has stored for the operation to be retired.
StoredError(e) == IF pd[e].use_thread_fallback THEN pd[e].io_result ELSE natres[e].code

C24_FailureRetires ==
    \A e \in Ends :
        (Returns(e, "result") /\ TerminalFailure(last'[e].code)) =>
            /\ pd[e].pending /\ ~pd'[e].pending
            /\ last'[e].code = StoredError(e)
            /\ ~last'[e].set /\ last'[e].size = 0
            /\ thr'[e] = "none" /\ nat'[e] = "none"
            /\ pd'[e].io_thread = NULL
            /\ Res(e, "thread") \notin live'

C24_AfterFailure ==
    \A e \in Ends :
        (Returned(e, "result") /\ TerminalFailure(last[e].code)) =>
            /\ ~pd[e].pending
            /\ pd[e].io_thread = NULL
            /\ thr[e] = "none" /\ nat[e] = "none"

C24_NextCalls ==
    \A e \in Ends :
        (call[e] = "idle" /\ obj[e] = "live" /\ ~pd[e].pending /\ call'[e] # "idle") =>
            /\ call'[e] # "abort"
            /\ last'[e].op = "result" => last'[e].code = ERROR_INVALID_PARAMETER
            /\ last'[e].op = "initiate" => ~last'[e].busy
            /\ (pd[e].use_thread_fallback /\ call'[e] = "initiate_spawned") =>
                    thr'[e] = "run"

\* C24: a result() that reports an error other than ERROR_IO_INCOMPLETE
\* retires the operation: pending is cleared, the worker is joined and its
\* handle released, the stored error is returned as it is and the outputs
\* are not written; the endpoint is then idle, so that the next result()
\* returns ERROR_INVALID_PARAMETER and the next initiate() is accepted.
C24_TerminalFailure ==
    /\ []C24_AfterFailure
    /\ [][C24_FailureRetires]_vars
    /\ [][C24_NextCalls]_vars

\* C24 witness: on the overlapped path a result() has reported
\* ERROR_BROKEN_PIPE for a read that had been queued, and retired it.
C24_Witness ==
    /\ Returned("r", "result")
    /\ last["r"].code = ERROR_BROKEN_PIPE
    /\ ~pd["r"].use_thread_fallback
    /\ ~pd["r"].pending
    /\ ~last["r"].set
    /\ obj["r"] = "live"

\* The owner of e is blocked inside result().
BlockedInResult(e) == call[e] \in {"result_wait", "result_join"}

\* The blocking I/O of the operation of e has returned.
IoReturned(e) ==
    IF pd[e].use_thread_fallback THEN thr[e] \in {"io_done", "set", "exited"}
    ELSE nat[e] = "done"

C25_WaitedResult ==
    \A e \in Ends :
        (Returns(e, "result") /\ last'[e].wait /\ pd[e].pending) =>
            /\ last'[e].code # ERROR_IO_INCOMPLETE
            /\ last'[e].code # "abort"
            /\ ~pd'[e].pending
            /\ IF pd[e].use_thread_fallback
               THEN thr[e] = "exited" /\ ev[e]
               ELSE nat[e] = "done"

\* C25: result(wait = TRUE) on a pending endpoint never returns
\* ERROR_IO_INCOMPLETE: it returns only once the operation has finished (the
\* worker has exited, or the overlapped operation is done), with pending
\* false; it never aborts; and with the worker scheduled fairly a result()
\* that is blocked returns once the blocking I/O has returned.
C25_WaitReturns ==
    /\ [][C25_WaitedResult]_vars
    /\ [](\A e \in Ends : call[e] # "abort")
    /\ \A e \in Ends : (BlockedInResult(e) /\ IoReturned(e)) ~> (call[e] = "ret")

\* C25 witness: a result(wait = TRUE) is blocked on the event while the
\* worker has finished its ReadFile() and is about to signal.
C25_Witness ==
    /\ call["r"] = "result_wait"
    /\ last["r"].wait
    /\ pd["r"].pending
    /\ thr["r"] = "io_done"
    /\ ~ev["r"]

\* Endpoint e has an operation in its backend after this step.
HasOperation(e) == thr'[e] # "none" \/ nat'[e] # "none"

C26_InitiateOutcome ==
    \A e \in Ends :
        (Returns(e, "initiate") /\ ~last'[e].busy) =>
            /\ ~last'[e].set
            /\ HasOperation(e) =>
                  last'[e].code = ERROR_IO_PENDING /\ pd'[e].pending
            /\ last'[e].code = ERROR_IO_PENDING =>
                  HasOperation(e) /\ pd'[e].pending
            /\ last'[e].code # ERROR_IO_PENDING =>
                  ~pd'[e].pending /\ ~HasOperation(e)

C26_OtherCodeNotPending ==
    (Returns("r", "initiate") /\ last'["r"].code # ERROR_IO_PENDING) =>
        ~pd'["r"].pending

\* C26: an initiate() that starts an operation returns ERROR_IO_PENDING with
\* pending true on both backends, also when the OS completes the overlapped
\* operation at once, and hands over no outcome, which is left to result();
\* an initiate() that returns any other code leaves pending false and has
\* started nothing.
C26_InitiatePending ==
    /\ [][C26_InitiateOutcome]_vars
    /\ [][C26_OtherCodeNotPending]_vars

\* C26 witness: on the overlapped path the ReadFile() of initiate() has
\* completed at once and initiate() has returned ERROR_IO_PENDING.
C26_Witness ==
    /\ Returned("r", "initiate")
    /\ last["r"].code = ERROR_IO_PENDING
    /\ nat["r"] = "done"
    /\ natres["r"].code = ERROR_SUCCESS
    /\ pd["r"].pending
    /\ ev["r"]

Other(e) == IF e = "r" THEN "w" ELSE "r"

\* This step belongs to a call of initiate() or result() on e: its entry,
\* its wake-up, its return, or the owner taking the value returned.
OperatesOn(e) ==
    /\ call'[e] # call[e]
    /\ call[e] # "close_wait"
    /\ call'[e] \notin {"close_wait", "closed"}

C27_OtherEndUntouched ==
    \A e \in Ends :
        OperatesOn(e) =>
            /\ pd'[Other(e)] = pd[Other(e)]
            /\ ev'[Other(e)] = ev[Other(e)]
            /\ thr'[Other(e)] = thr[Other(e)]
            /\ nat'[Other(e)] = nat[Other(e)]
            /\ call'[Other(e)] = call[Other(e)]

C27_WriteEndIdleAfterReadInitiate ==
    (Returned("r", "initiate") /\ pd["r"].pending /\ obj["w"] = "live"
        /\ ~pd["w"].pending) => ev["w"]

\* C27: a call of initiate() or result() on one endpoint leaves the other
\* endpoint's pending flag, completion signal and worker as they were; in
\* particular, after a read has been initiated the write endpoint with
\* nothing pending has its signal signalled and its result() returns
\* ERROR_INVALID_PARAMETER.
C27_EndpointIndependence ==
    /\ [][C27_OtherEndUntouched]_vars
    /\ []C27_WriteEndIdleAfterReadInitiate
    /\ [][(Returns("w", "result") /\ ~pd["w"].pending) =>
            last'["w"].code = ERROR_INVALID_PARAMETER]_vars

\* This step is a whole initiate() on e that was not refused and failed.
InitiateFails(e) ==
    /\ Calls(e, "initiate")
    /\ call'[e] = "ret"
    /\ ~last'[e].busy
    /\ last'[e].code # ERROR_IO_PENDING

C28_FailedInitiateKeepsState ==
    \A e \in Ends :
        InitiateFails(e) =>
            /\ ~pd'[e].pending
            /\ pd'[e].io_thread = NULL
            /\ pd'[e] = pd[e]
            /\ thr'[e] = thr[e] /\ nat'[e] = nat[e]
            /\ ev'[e] = ev[e]

\* C28: an initiate() that fails (the worker could not be spawned, or the OS
\* rejected the operation) returns the error and leaves the endpoint as it
\* was: pending false, no worker, and the completion signal as it was before
\* the call, signalled if it was signalled.
C28_FailedInitiate == [][C28_FailedInitiateKeepsState]_vars

\* The worker of e exists and has not terminated.
WorkerLive(e) == thr[e] \in {"run", "io_done", "set"}

\* This step changes what the worker of e stores: io_result,
\* bytes_transferred or the contents of rw_buf.
OutcomeWritten(e) ==
    \/ pd'[e].io_result # pd[e].io_result
    \/ pd'[e].bytes_transferred # pd[e].bytes_transferred
    \/ mem'[e] # mem[e]

\* This step is the owner reading the stored outcome of e: result() gets
\* past its waits and returns what is stored.
OutcomeRead(e) ==
    /\ pd[e].use_thread_fallback
    /\ Returns(e, "result")
    /\ ReportsOutcome(last'[e])

C29_WorkerWrites ==
    \A e \in Ends :
        (pd[e].use_thread_fallback /\ WorkerLive(e) /\ OutcomeWritten(e)) =>
            (thr[e] = "run" /\ thr'[e] = "io_done" /\ ~ev[e])

C29_OwnerReads ==
    \A e \in Ends :
        OutcomeRead(e) =>
            /\ ~WorkerLive(e)
            /\ thr[e] = "exited"
            /\ ev[e]
            /\ pd[e].io_result \notin {"STALE", "UNINIT"}
            /\ last'[e].code = pd[e].io_result
            /\ last'[e].set => last'[e].size = pd[e].bytes_transferred
            /\ thr'[e] = "none"

\* C29: on the thread fallback the worker stores io_result,
\* bytes_transferred and the bytes of the buffer only between its spawn and
\* its SetEvent(), and the owner reads them only after it has seen the signal
\* and joined the worker: the owner never reads them while a worker of the
\* endpoint is live, and what result() reports is the outcome of the
\* operation it retires, never one left over from an earlier operation.
C29_NoRaceOnOutcome ==
    /\ [][C29_WorkerWrites]_vars
    /\ [][C29_OwnerReads]_vars

\* C29 witness: a second read on the thread fallback has been retired with
\* its own outcome: the first read had reported bytes, this one reports the
\* broken pipe.
C29_Witness ==
    /\ pd["r"].use_thread_fallback
    /\ Returned("r", "result")
    /\ last["r"].code = ERROR_BROKEN_PIPE
    /\ tally.moved
    /\ thr["r"] = "none"

\* The accept started by ConnectNamedPipe() is still outstanding inside the
\* OS, which will write to the OVERLAPPED of the read endpoint and signal its
\* event when the accept completes.
AcceptOutstanding == accept = "inflight"

\* C30: on a failure path of create() taken after the accept was started,
\* the read endpoint's event and the endpoint object, which holds the
\* OVERLAPPED of the accept, are not released while the accept is still
\* outstanding.
C30_AbortKeepsAcceptState ==
    AcceptOutstanding =>
        /\ obj["r"] = "live"
        /\ Res("r", "obj") \in live
        /\ Res("r", "event") \in live

\* This step is a close() of e that finds nothing pending.
ClosesIdle(e) ==
    /\ call[e] = "idle"
    /\ call'[e] \in {"close_wait", "closed"}
    /\ ~pd[e].pending

C31_IdleCloseReturns == \A e \in Ends : ClosesIdle(e) => call'[e] = "closed"

\* C31: close() on an endpoint with nothing pending returns without waiting,
\* and a close() of the read endpoint that has to wait for a pending read,
\* the write endpoint being open or closed, returns in the end: the one
\* owner is never left blocked in close().
C31_CloseReturns ==
    /\ [][C31_IdleCloseReturns]_vars
    /\ (call["r"] = "close_wait") ~> (call["r"] = "closed")

====
